---- MODULE Spec2Model ----
(***************************************************************************)
(* A model of xsmb_auto_update.py: one batch run of main() loads the       *)
(* history CSV, tries one fetch-and-append cycle, recomputes the hot/cold  *)
(* feature table and writes two HTML reports.                              *)
(*                                                                         *)
(* Representation.                                                         *)
(*   - a calendar day is an integer (a day number); a date string of the   *)
(*     CSV is the day it names;                                            *)
(*   - a token is a non-empty sequence of decimal digits, a prize text     *)
(*     (the all_prizes cell) is the sequence of its whitespace-separated   *)
(*     tokens;                                                             *)
(*   - a score is kept exactly: the pair of numerators of the two          *)
(*     standardized series, next to the squares of the two divisors (see   *)
(*     build_features). Scores are compared in exact arithmetic.           *)
(***************************************************************************)
EXTENDS Integers, Sequences, FiniteSets, TLC

\* ------------------------------------------------------------------ constants
\* range(100): the digit pairs 00..99
NumValues == 100
\* timedelta(days=29): the window reaches 29 days back from the latest day
\* (the window_days parameter is not read)
WindowBack == 29
\* head(topk), topk=3
TopK == 3
\* np.nan in the recency_days column (a real recency is >= 0)
NaN == -1
\* latest_day is None
None == -1

\* ------------------------------------------------------------------ helpers
\* A column of the table is a sequence of NumValues cells, the cell of value v
\* at index v + 1 (reindex(range(100)) / range(100)).
Idx == 1 .. NumValues

\* the sequence s, with every cell computed
Column(s) == s \o << >>

Max(a, b) == IF a >= b THEN a ELSE b

RECURSIVE SumSeq(_, _, _)
\* s[lo] + ... + s[hi]
SumSeq(s, lo, hi) ==
    IF lo > hi THEN 0
    ELSE IF lo = hi THEN s[lo]
    ELSE LET mid == (lo + hi) \div 2
         IN  SumSeq(s, lo, mid) + SumSeq(s, mid + 1, hi)

RECURSIVE MaxSeq(_, _, _)
\* max of s[lo..hi]; NaN (below every real recency) is skipped, as pandas max does
MaxSeq(s, lo, hi) ==
    IF lo = hi THEN s[lo]
    ELSE LET mid == (lo + hi) \div 2
             l   == MaxSeq(s, lo, mid)
             r   == MaxSeq(s, mid + 1, hi)
         IN  Max(l, r)

RECURSIVE FracLess(_, _, _, _)
\* a/b < c/d for a, c >= 0 and b, d > 0, without forming the products
FracLess(a, b, c, d) ==
    LET q1 == a \div b
        q2 == c \div d
        r1 == a % b
        r2 == c % d
    IN  IF q1 # q2 THEN q1 < q2
        ELSE IF r2 = 0 THEN FALSE
        ELSE IF r1 = 0 THEN TRUE
        ELSE FracLess(d, r2, b, r1)

\* ------------------------------------------------------------------ build_features
\* int(s[-2:]) of a token of length >= 2
Last2(s) == 10 * s[Len(s) - 1] + s[Len(s)]

RECURSIVE TokenRows(_, _)
\* the inner loop: one {date, num} entry per token of length >= 2
\* (the digits string built on line 50 is never used)
TokenRows(date, toks) ==
    IF toks = << >> THEN << >>
    ELSE (IF Len(Head(toks)) >= 2
            THEN << [date |-> date, num |-> Last2(Head(toks))] >>
            ELSE << >>) \o TokenRows(date, Tail(toks))

RECURSIVE HistRows(_)
\* the outer loop over the rows of df
HistRows(df) ==
    IF df = << >> THEN << >>
    ELSE TokenRows(Head(df).date, Head(df).all_prizes) \o HistRows(Tail(df))

\* hist["date"].max()
MaxDate(hist) ==
    CHOOSE d \in {hist[i].date : i \in DOMAIN hist} :
        \A i \in DOMAIN hist : hist[i].date <= d

\* Freq without the window filter
FreqNoWindow(hist, window_start) ==
    Column([i \in Idx |-> Cardinality({k \in DOMAIN hist : hist[k].num = i - 1})])

\* Freq with the first day of the window left out (> instead of >=)
FreqExclusiveStart(hist, window_start) ==
    Column([i \in Idx |->
        Cardinality({k \in DOMAIN hist :
                        hist[k].num = i - 1 /\ hist[k].date > window_start})])

\* hist[hist.date >= window_start].groupby("num").size().reindex(range(100), fill_value=0)
Freq(hist, window_start) ==
    Column([i \in Idx |->
        Cardinality({k \in DOMAIN hist :
                        hist[k].num = i - 1 /\ hist[k].date >= window_start})])

\* (latest_day - hist.groupby("num")["date"].max().reindex(range(100))).dt.days
Recency(hist, latest_day) ==
    Column([i \in Idx |->
        LET occ == {k \in DOMAIN hist : hist[k].num = i - 1}
        IN  IF occ = {} THEN NaN
            ELSE latest_day - (CHOOSE d \in {hist[k].date : k \in occ} :
                                  \A k \in occ : hist[k].date <= d)])

\* out["recency_days"].fillna(out["recency_days"].max())
FillNa(recency) ==
    LET rmax == MaxSeq(recency, 1, NumValues)
    IN  Column([i \in Idx |-> IF recency[i] = NaN THEN rmax ELSE recency[i]])

\* DivisorSq with the divisor floored at 1.0: max(std, 1.0)
DivisorSqFloored(x) ==
    LET s   == SumSeq(x, 1, NumValues)
        s2  == SumSeq(Column([i \in Idx |-> x[i] * x[i]]), 1, NumValues)
        var == NumValues * s2 - s * s
    IN  Max(var, NumValues * (NumValues - 1))

\* the square of (x.std(ddof=1) or 1.0), scaled by N(N-1):
\* N(N-1) * std^2 = N * sum x^2 - (sum x)^2; a std of exactly 0 is replaced by 1.0
DivisorSq(x) ==
    LET s   == SumSeq(x, 1, NumValues)
        s2  == SumSeq(Column([i \in Idx |-> x[i] * x[i]]), 1, NumValues)
        var == NumValues * s2 - s * s
    IN  IF var = 0 THEN NumValues * (NumValues - 1) ELSE var

\* x - x.mean(), scaled by N
Centered(x) ==
    LET s == SumSeq(x, 1, NumValues)
    IN  Column([i \in Idx |-> NumValues * x[i] - s])

\* sign of 0.6 * dh / sqrt(vh) + 0.4 * dc / sqrt(vc), i.e. of 3 dh sqrt(vc) + 2 dc sqrt(vh),
\* where dh and dc already carry the weights 3 and 2
SignOfSum(dh, vh, dc, vc) ==
    IF dh >= 0 /\ dc >= 0 THEN (IF dh = 0 /\ dc = 0 THEN 0 ELSE 1)
    ELSE IF dh <= 0 /\ dc <= 0 THEN -1
    ELSE \* opposite signs: compare dh^2 vc with dc^2 vh
         LET hot  == dh * dh
             cold == dc * dc
         IN  IF FracLess(cold, hot, vc, vh) THEN (IF dh > 0 THEN 1 ELSE -1)
             ELSE IF FracLess(vc, vh, cold, hot) THEN (IF dc > 0 THEN 1 ELSE -1)
             ELSE 0

\* sign of a.score - b.score for two rows of one table
ScoreCmp(a, b, div) ==
    SignOfSum(a.score.hot - b.score.hot, div.hot, a.score.cold - b.score.cold, div.cold)

\* Before with ties resolved towards the larger num (ascending=[False, False])
BeforeTiesDescending(a, b, div) ==
    LET c == ScoreCmp(a, b, div)
    IN  c = 1 \/ (c = 0 /\ a.num > b.num)

\* sort_values(["score", "num"], ascending=[False, True]): a comes before b
Before(a, b, div) ==
    LET c == ScoreCmp(a, b, div)
    IN  c = 1 \/ (c = 0 /\ a.num < b.num)

RECURSIVE CountBefore(_, _, _, _)
\* how many of the sorted rows t[1..hi] come before row m (binary search)
CountBefore(t, m, div, hi) ==
    LET RECURSIVE Search(_, _)
        Search(lo, up) ==
            IF lo > up THEN up
            ELSE LET mid == (lo + up) \div 2
                 IN  IF Before(t[mid], m, div) THEN Search(mid + 1, up)
                     ELSE Search(lo, mid - 1)
    IN  Search(1, hi)

RECURSIVE Merge(_, _, _)
\* the merge of two sorted runs of rows
Merge(s, t, div) ==
    IF s = << >> THEN t
    ELSE IF t = << >> THEN s
    ELSE LET h == (Len(s) + 1) \div 2
             k == CountBefore(t, s[h], div, Len(t))
         IN  Merge(SubSeq(s, 1, h - 1), SubSeq(t, 1, k), div)
               \o << s[h] >>
               \o Merge(SubSeq(s, h + 1, Len(s)), SubSeq(t, k + 1, Len(t)), div)

RECURSIVE SortRows(_, _)
SortRows(s, div) ==
    IF Len(s) <= 1 THEN s
    ELSE LET h == Len(s) \div 2
         IN  Merge(SortRows(SubSeq(s, 1, h), div),
                   SortRows(SubSeq(s, h + 1, Len(s)), div), div)

\* EmptyFeatures with a recency of 0 in place of NaN
EmptyFeaturesZeroRecency ==
    [rows |-> [i \in Idx |->
                 [num |-> i - 1, freq_30d |-> 0, recency_days |-> 0,
                  score |-> [hot |-> 0, cold |-> 0]]],
     div |-> [hot |-> NumValues * (NumValues - 1), cold |-> NumValues * (NumValues - 1)],
     latest_day |-> None]

\* the table returned for an empty hist: score 0 for every value
EmptyFeatures ==
    [rows |-> [i \in Idx |->
                 [num |-> i - 1, freq_30d |-> 0, recency_days |-> NaN,
                  score |-> [hot |-> 0, cold |-> 0]]],
     div |-> [hot |-> NumValues * (NumValues - 1), cold |-> NumValues * (NumValues - 1)],
     latest_day |-> None]

\* OutTable without the reindex over range(100): rows for the observed values only
OutTableObserved(freq, recency, zh, zc) ==
    SelectSeq(Column([i \in Idx |->
                 [num |-> i - 1, freq_30d |-> freq[i], recency_days |-> recency[i],
                  score |-> [hot |-> 3 * zh[i], cold |-> 2 * zc[i]]]]),
              LAMBDA r : r.recency_days # NaN)

\* out = pd.DataFrame({"num": range(100)}) with its freq_30d, recency_days and
\* score columns (the score carries the weights: 0.6 : 0.4 = 3 : 2)
OutTable(freq, recency, zh, zc) ==
    Column([i \in Idx |->
              [num |-> i - 1, freq_30d |-> freq[i], recency_days |-> recency[i],
               score |-> [hot |-> 3 * zh[i], cold |-> 2 * zc[i]]]])

build_features(df) ==
    LET hist == HistRows(df)
    IN  IF hist = << >> THEN EmptyFeatures
        ELSE
        LET latest_day   == MaxDate(hist)
            window_start == latest_day - WindowBack
            freq    == Freq(hist, window_start)
            recency == Recency(hist, latest_day)
            rc      == FillNa(recency)
            zh      == Centered(freq)
            zc      == Centered(rc)
            div     == [hot |-> DivisorSq(freq), cold |-> DivisorSq(rc)]
            out     == OutTable(freq, recency, zh, zc)
        IN  [rows |-> SortRows(out, div), div |-> div, latest_day |-> latest_day]

\* ------------------------------------------------------------------ rebuild_html
\* f"{int(x):02d}"
TwoDigits(x) == << x \div 10, x % 10 >>

\* '' if latest_day is None else latest_day.strftime('%Y-%m-%d')
DateText(latest_day) == IF latest_day = None THEN << >> ELSE << latest_day >>

\* '' if pd.isna(row['recency_days']) else int(row['recency_days'])
RecencyText(r) == IF r = NaN THEN << >> ELSE << r >>

\* feature_df.head(topk)
HeadRows(rows, k) == SubSeq(rows, 1, IF Len(rows) < k THEN Len(rows) ELSE k)

\* the document rebuild_html writes to index.html: the date line and the <ul> items
rebuild_html(feats) ==
    LET best == HeadRows(feats.rows, TopK)
    IN  [date  |-> DateText(feats.latest_day),
         items |-> [i \in DOMAIN best |->
                      [num     |-> TwoDigits(best[i].num),
                       score   |-> best[i].score,
                       freq    |-> best[i].freq_30d,
                       recency |-> RecencyText(best[i].recency_days)]]]

\* the document rebuild_html_compact writes to index_top3_only.html: the <ol> items
rebuild_html_compact(feats) ==
    LET best == HeadRows(feats.rows, TopK)
    IN  [date  |-> DateText(feats.latest_day),
         items |-> [i \in DOMAIN best |->
                      [num |-> TwoDigits(best[i].num), score |-> best[i].score]]]

\* ------------------------------------------------------------------ fetch_latest_from_ketqua
\* re.findall(r"\b\d{2,5}\b", html): the page is the sequence of its all-digit
\* words; a word is found when it has 2 to 5 digits
FindAll(html) == SelectSeq(html, LAMBDA w : Len(w) >= 2 /\ Len(w) <= 5)

\* [str(int(x[-2:])).zfill(2) for x in nums]
LastTwo(nums) == [i \in DOMAIN nums |-> TwoDigits(Last2(nums[i]))]

\* resp is the answer of requests.get: a network error, a non-success status,
\* or a page. The result is what the function raises or returns.
fetch_latest_from_ketqua(resp, now) ==
    IF resp.status = "network_error" THEN [raised |-> "ConnectionError"]
    ELSE IF resp.status = "http_error" THEN [raised |-> "HTTPError"]
    ELSE LET nums == FindAll(resp.html)
         IN  IF nums = << >> THEN [raised |-> "RuntimeError"]
             ELSE [raised |-> "", today |-> now, all_prizes |-> nums,
                   last2 |-> LastTwo(nums)]

\* ------------------------------------------------------------------ the history CSV
RECURSIVE StripZeros(_)
\* str(int(token)): the decimal digits without leading zeros
StripZeros(tok) ==
    IF Len(tok) > 1 /\ Head(tok) = 0 THEN StripZeros(Tail(tok)) ELSE tok

\* pd.read_csv infers the type of a column: when every all_prizes cell of the
\* file is one number, the column is read as integers (leading zeros are
\* lost); otherwise every cell stays the text that was written
read_csv(file) ==
    IF file # << >> /\ \A i \in DOMAIN file : Len(file[i].all_prizes) = 1
    THEN [i \in DOMAIN file |->
            [date |-> file[i].date,
             all_prizes |-> << StripZeros(file[i].all_prizes[1]) >>]]
    ELSE file

\* df["date"].astype(str).values
Dates(df) == {df[i].date : i \in DOMAIN df}

\* ShouldAppend with the date test never finding the day
ShouldAppendAlways(force, day, table) == TRUE

\* if force or today not in df["date"].astype(str).values
ShouldAppend(force, day, table) == force \/ day \notin Dates(table)

\* Caught for "except requests.RequestException": the RuntimeError of a page
\* without numbers is not caught
CaughtRequestsOnly(raised) == raised \in {"ConnectionError", "HTTPError"}

\* except Exception: every exception fetch_latest_from_ketqua raises is an Exception
Caught(raised) == raised \in {"ConnectionError", "HTTPError", "RuntimeError", "OSError"}

\* ------------------------------------------------------------------ bounds and inputs
\* the clock starts on FirstDay and advances at most to FirstDay + MaxTicks
FirstDay == 40
MaxTicks == 1
\* runs that would append to a history of MaxRows rows are not explored
MaxRows == 2
\* the histories main() starts from hold at most InitRows rows
InitRows == 1
\* the history tables build_features is applied to hold at most FeatRows rows
FeatRows == 2

\* "12345 234"
TextA == << <<1, 2, 3, 4, 5>>, <<2, 3, 4>> >>
\* "05"
TextB == << <<0, 5>> >>
\* "45 7 145"
TextC == << <<4, 5>>, <<7>>, <<1, 4, 5>> >>
\* "7"
TextOne == << <<7>> >>
\* "45 45 ... 45", one token more than the window has days
TextLong == [i \in 1 .. (WindowBack + 2) |-> <<4, 5>>]

\* pages: digit words found, a single word with a leading zero, no word of 2..5 digits
Pages == { << <<1, 2, 3, 4, 5>>, <<9>>, <<2, 3, 4>> >>,
           << <<0, 5>> >>,
           << <<7>>, <<1, 2, 3, 4, 5, 6>> >> }

Responses ==
    { [status |-> "network_error", html |-> << >>],
      [status |-> "http_error", html |-> << >>] }
    \cup { [status |-> "ok", html |-> p] : p \in Pages }

\* the I/O step of main that fails in a run, if any
Faults == {"none", "read_csv", "to_csv", "index_html", "index_top3_only_html"}

RECURSIVE SeqsUpTo(_, _)
\* the sequences over S of length at most n
SeqsUpTo(S, n) ==
    IF n = 0 THEN { << >> }
    ELSE LET shorter == SeqsUpTo(S, n - 1)
         IN  shorter \cup { Append(q, x) : q \in shorter, x \in S }

MainHistories ==
    SeqsUpTo({ [date |-> FirstDay - 1, all_prizes |-> TextA],
               [date |-> FirstDay, all_prizes |-> TextB] }, InitRows)

FeatHistories ==
    SeqsUpTo({ [date |-> d, all_prizes |-> t] :
                 d \in {FirstDay - WindowBack - 1, FirstDay - WindowBack, FirstDay},
                 t \in {TextA, TextB, TextC, TextOne, TextLong} }, FeatRows)

\* ------------------------------------------------------------------ state
VARIABLES
    csv,                  \* xsmb_history.csv: the rows of the file (no file: no rows)
    index_html,           \* what the process has written to index.html:
                          \* << >> (nothing) or << document >>
    index_top3_only_html, \* what it has written to index_top3_only.html, likewise
    today,                \* the day datetime.now() falls on
    ran_today,            \* a run of main has already ended normally on this day
    pc,                   \* "idle": no process; "exited": a run of main has ended;
                          \* "call", "built", "full", "compact": the functions applied alone
    run,                  \* the latest run: its inputs, what it loaded, how it ended
    df,                   \* the in-memory history table
    features              \* the result of build_features: rows, divisors, latest_day

vars == << csv, index_html, index_top3_only_html, today, ran_today, pc, run, df, features >>

NoFeatures == [rows |-> << >>, div |-> [hot |-> 0, cold |-> 0], latest_day |-> None]

NoRun == [force |-> FALSE, resp |-> "", fault |-> "none", again |-> FALSE, day |-> None,
          before |-> << >>, loaded |-> << >>, raised |-> "", log |-> << >>, exit |-> ""]

\* ------------------------------------------------------------------ main
\* One run of main(force): resp is what the site answers, fault the I/O step
\* that fails (none: every file operation succeeds).
Main(force, resp, fault) ==
    /\ pc = "idle"
    /\ LET rec == [force |-> force, resp |-> resp.status, fault |-> fault,
                   again |-> ran_today, day |-> today, before |-> csv]
       IN
       IF fault = "read_csv"
       THEN \* pd.read_csv raises outside the try: the run ends there
            /\ resp.status = "network_error"   \* no request is made: one resp stands for all
            /\ run' = [rec EXCEPT !.resp = ""]
                        @@ [loaded |-> << >>, raised |-> "", log |-> << >>, exit |-> "error"]
            /\ df' = << >>
            /\ features' = NoFeatures
            /\ UNCHANGED << csv, index_html, index_top3_only_html >>
       ELSE
       LET loaded  == read_csv(csv)
           got     == fetch_latest_from_ketqua(resp, today)
           fetched == got.raised = ""
           append  == fetched /\ ShouldAppend(force, got.today, loaded)
           \* df is rebound by pd.concat before df.to_csv runs
           df1     == IF append
                        THEN Append(loaded, [date |-> got.today, all_prizes |-> got.all_prizes])
                        ELSE loaded
           written == append /\ fault # "to_csv"
           \* the exception raised inside the try, if any
           raised  == IF ~fetched THEN got.raised
                      ELSE IF append /\ ~written THEN "OSError" ELSE ""
           log     == IF raised # "" THEN << "Khong lay duoc du lieu moi" >>
                      ELSE IF append THEN << "Da them du lieu ngay" >> ELSE << >>
       IN  /\ fault = "to_csv" => append
           /\ append => Len(loaded) < MaxRows
           /\ csv' = IF written THEN df1 ELSE csv
           /\ df' = df1
           /\ IF raised # "" /\ ~Caught(raised)
              THEN \* the exception leaves main
                   /\ features' = NoFeatures
                   /\ UNCHANGED << index_html, index_top3_only_html >>
                   /\ run' = rec @@ [loaded |-> loaded, raised |-> raised,
                                     log |-> << >>, exit |-> "error"]
              ELSE LET feats == build_features(df1)
                   IN  /\ features' = feats
                       /\ index_html' = IF fault = "index_html" THEN index_html
                                        ELSE << rebuild_html(feats) >>
                       /\ index_top3_only_html' =
                             IF fault \in {"index_html", "index_top3_only_html"}
                               THEN index_top3_only_html
                               ELSE << rebuild_html_compact(feats) >>
                       /\ run' = rec @@ [loaded |-> loaded, raised |-> raised, log |-> log,
                                         exit |-> IF fault \in {"index_html", "index_top3_only_html"}
                                                    THEN "error" ELSE "ok"]
    /\ pc' = "exited"
    /\ ran_today' = (ran_today \/ run'.exit = "ok")
    /\ UNCHANGED today

\* python xsmb_auto_update.py
MainPlain == \E resp \in Responses, fault \in Faults : Main(FALSE, resp, fault)

\* python xsmb_auto_update.py --force
MainForce == \E resp \in Responses, fault \in Faults : Main(TRUE, resp, fault)

\* the process ends: its memory is gone, the history file stays
ProcessExit ==
    /\ pc = "exited"
    /\ pc' = "idle"
    /\ run' = NoRun
    /\ df' = << >>
    /\ features' = NoFeatures
    /\ index_html' = << >>
    /\ index_top3_only_html' = << >>
    /\ UNCHANGED << csv, today, ran_today >>

\* midnight passes between two runs
Tick ==
    /\ pc = "idle"
    /\ today < FirstDay + MaxTicks
    /\ today' = today + 1
    /\ ran_today' = FALSE
    /\ UNCHANGED << csv, index_html, index_top3_only_html, pc, run, df, features >>

Init ==
    /\ csv \in MainHistories
    /\ index_html = << >>
    /\ index_top3_only_html = << >>
    /\ today = FirstDay
    /\ ran_today = FALSE
    /\ pc = "idle"
    /\ run = NoRun
    /\ df = << >>
    /\ features = NoFeatures

Next == MainPlain \/ MainForce \/ ProcessExit \/ Tick

Spec == Init /\ [][Next]_vars

\* runs without the force flag, from a history in which every date appears once
NoDup(h) == \A i, j \in DOMAIN h : h[i].date = h[j].date => i = j

InitNoForce == Init /\ NoDup(csv)

NextNoForce == MainPlain \/ ProcessExit \/ Tick

SpecNoForce == InitNoForce /\ [][NextNoForce]_vars

\* ------------------------------------------------------------------ the functions alone
\* build_features, rebuild_html and rebuild_html_compact applied to a history table
CallBuildFeatures ==
    /\ pc = "call"
    /\ features' = build_features(df)
    /\ pc' = "built"
    /\ UNCHANGED << csv, index_html, index_top3_only_html, today, ran_today, run, df >>

CallRebuildHtml ==
    /\ pc = "built"
    /\ index_html' = << rebuild_html(features) >>
    /\ pc' = "full"
    /\ UNCHANGED << csv, index_top3_only_html, today, ran_today, run, df, features >>

CallRebuildHtmlCompact ==
    /\ pc = "full"
    /\ index_top3_only_html' = << rebuild_html_compact(features) >>
    /\ pc' = "compact"
    /\ UNCHANGED << csv, index_html, today, ran_today, run, df, features >>

InitFeatures ==
    /\ df \in FeatHistories
    /\ csv = << >>
    /\ index_html = << >>
    /\ index_top3_only_html = << >>
    /\ today = FirstDay
    /\ ran_today = FALSE
    /\ pc = "call"
    /\ run = NoRun
    /\ features = NoFeatures

NextFeatures == CallBuildFeatures \/ CallRebuildHtml \/ CallRebuildHtmlCompact

SpecFeatures == InitFeatures /\ [][NextFeatures]_vars

\* ------------------------------------------------------------------ properties
Returned == pc \in {"built", "full", "compact"}
NonEmptyHist == features.latest_day # None
FullDivisor == NumValues * (NumValues - 1)

\* the (row, token) positions of df that hold a token of length >= 2
KeptTokens(table) ==
    UNION { { << i, j >> : j \in { k \in DOMAIN table[i].all_prizes :
                                     Len(table[i].all_prizes[k]) >= 2 } } :
            i \in DOMAIN table }

\* the latest day on which a token of length >= 2 is recorded
LatestRecorded(table) ==
    LET days == { table[p[1]].date : p \in KeptTokens(table) }
    IN  CHOOSE d \in days : \A e \in days : e <= d

\* the token at position p ends in the two digits of v
EndsIn(table, p, v) ==
    LET tok == table[p[1]].all_prizes[p[2]]
    IN  tok[Len(tok) - 1] = v \div 10 /\ tok[Len(tok)] = v % 10

\* C1: whenever build_features returns (empty, sparse or full history), the
\* table has exactly 100 rows and every num 0..99 appears in exactly one row.
C1_EachValueOnce ==
    Returned =>
        /\ Len(features.rows) = 100
        /\ \A v \in 0 .. 99 :
              Cardinality({ i \in DOMAIN features.rows : features.rows[i].num = v }) = 1

\* a sparse history of two rows whose table is not in the order 0..99
C1_Witness ==
    /\ pc = "built"
    /\ Len(df) = 2
    /\ NonEmptyHist
    /\ features.rows[1].num # 0
    /\ \E i \in DOMAIN features.rows : features.rows[i].recency_days = NaN

\* C2 (as claimed): without the force flag every date stays at most once in the
\* history, and a second run on the same day leaves the history as the first
\* run left it.
C2_SecondRunChangesNothing ==
    /\ NoDup(csv)
    /\ (pc = "exited" /\ run.again) => csv = run.before

\* C2 (amended): without the force flag every date stays at most once in the
\* history file and in the in-memory table, and a run on a day whose row is
\* already in the history leaves the history file exactly as it was.
C2_NoDuplicateDates ==
    /\ NoDup(csv)
    /\ NoDup(df)
    /\ (pc = "exited" /\ run.fault # "read_csv" /\ run.day \in Dates(run.before))
          => (csv = run.before /\ df = run.loaded)

\* a second run on the same day, its fetch succeeding, after the day was recorded
C2_Witness ==
    /\ pc = "exited"
    /\ run.again
    /\ run.resp = "ok"
    /\ run.raised = ""
    /\ run.fault = "none"
    /\ run.day \in Dates(run.before)
    /\ csv = run.before

\* C3: a run with the force flag whose fetch succeeds (and whose files are
\* written) leaves the history one row longer: the new last row is dated today
\* and every earlier row is kept unchanged, in order.
C3_ForceAppendsKeepingRows ==
    (pc = "exited" /\ run.force /\ run.resp = "ok" /\ run.raised = "" /\ run.exit = "ok")
        => /\ Len(csv) = Len(run.before) + 1
           /\ csv[Len(csv)].date = run.day
           /\ SubSeq(csv, 1, Len(run.before)) = run.before

\* C4: when the fetch fails (network error, HTTP status, no number found) the
\* history file and the in-memory table stay as loaded, and, no file operation
\* failing, main ends normally with both reports rendered from that history.
C4_FetchFailureStillRenders ==
    (pc = "exited" /\ run.raised \in {"ConnectionError", "HTTPError", "RuntimeError"})
        => /\ csv = run.before
           /\ df = run.loaded
           /\ run.fault = "none" =>
                 /\ run.exit = "ok"
                 /\ index_html = << rebuild_html(build_features(run.loaded)) >>
                 /\ index_top3_only_html
                       = << rebuild_html_compact(build_features(run.loaded)) >>

\* a page without numbers, on a non-empty history with every file operation working
C4_Witness ==
    /\ pc = "exited"
    /\ run.raised = "RuntimeError"
    /\ run.fault = "none"
    /\ run.loaded # << >>
    /\ run.exit = "ok"
    /\ index_html # << >>
    /\ index_top3_only_html # << >>

\* C5: only fetch/parse failures are caught: a failing file operation (reading
\* or writing the CSV, writing either HTML file) ends the run with an error,
\* and no report is rendered after a failure of the CSV.
C5_FileFailuresEndTheRun ==
    pc = "exited" =>
        /\ run.fault # "none" => run.exit = "error"
        /\ run.fault \in {"read_csv", "to_csv"} =>
              (index_html = << >> /\ index_top3_only_html = << >>)
        /\ run.exit = "ok" => run.raised \in {"", "ConnectionError", "HTTPError", "RuntimeError"}

\* C6 (as claimed): every freq_30d is a non-negative integer that is at most
\* the number of days of the 30-day window.
C6_FreqAtMostWindowDays ==
    (Returned /\ NonEmptyHist) =>
        \A i \in DOMAIN features.rows :
            /\ features.rows[i].freq_30d >= 0
            /\ features.rows[i].freq_30d <= 30

\* C6 (amended): every freq_30d is a non-negative integer that is at most the
\* number of tokens of length >= 2 recorded on the days of the 30-day window.
C6_FreqAtMostWindowTokens ==
    (Returned /\ NonEmptyHist) =>
        LET L == LatestRecorded(df)
            inWindow == { p \in KeptTokens(df) :
                            df[p[1]].date >= L - 29 /\ df[p[1]].date <= L }
        IN  \A i \in DOMAIN features.rows :
                /\ features.rows[i].freq_30d \in Nat
                /\ features.rows[i].freq_30d <= Cardinality(inWindow)

\* a value counted more often than the window has days
C6_Witness ==
    /\ pc = "built"
    /\ NonEmptyHist
    /\ \E i \in DOMAIN features.rows : features.rows[i].freq_30d > 30

\* C7: the rows of a non-empty history's table are totally ordered: each row has
\* a strictly higher score than the next, or the same score and a smaller num;
\* the reports show the first three rows, which no later row precedes.
C7_RowsTotallyOrdered ==
    (Returned /\ NonEmptyHist) =>
        LET rows == features.rows
        IN  /\ \A i \in 1 .. (Len(rows) - 1) :
                  LET c == ScoreCmp(rows[i], rows[i + 1], features.div)
                  IN  c = 1 \/ (c = 0 /\ rows[i].num < rows[i + 1].num)
            /\ \A j \in 4 .. Len(rows) :
                  LET c == ScoreCmp(rows[3], rows[j], features.div)
                  IN  c = 1 \/ (c = 0 /\ rows[3].num < rows[j].num)
            /\ pc = "compact" =>
                  /\ Len(index_html[1].items) = 3
                  /\ Len(index_top3_only_html[1].items) = 3
                  /\ \A i \in 1 .. 3 :
                        /\ index_html[1].items[i].num = TwoDigits(rows[i].num)
                        /\ index_top3_only_html[1].items[i].num = TwoDigits(rows[i].num)

\* a rendered table with a strict step, a tie, and a first row that is not value 0
C7_Witness ==
    /\ pc = "compact"
    /\ NonEmptyHist
    /\ features.rows[1].num # 0
    /\ \E i \in 1 .. 99 : ScoreCmp(features.rows[i], features.rows[i + 1], features.div) = 1
    /\ \E i \in 1 .. 99 : ScoreCmp(features.rows[i], features.rows[i + 1], features.div) = 0

\* C8: for a history that is empty or yields no token of length >= 2 the table
\* is 0..99 in ascending order with freq_30d 0, score 0 and undefined recency,
\* latest_day is undefined, and the reports show an empty date and 00, 01, 02.
C8_EmptyHistoryTable ==
    (Returned /\ KeptTokens(df) = {}) =>
        /\ features.latest_day = None
        /\ Len(features.rows) = 100
        /\ \A i \in 1 .. 100 :
              features.rows[i] = [num |-> i - 1, freq_30d |-> 0, recency_days |-> NaN,
                                  score |-> [hot |-> 0, cold |-> 0]]
        /\ pc = "compact" =>
              /\ index_html[1].date = << >>
              /\ index_top3_only_html[1].date = << >>
              /\ [i \in 1 .. 3 |-> index_html[1].items[i].num]
                    = << <<0, 0>>, <<0, 1>>, <<0, 2>> >>
              /\ [i \in 1 .. 3 |-> index_top3_only_html[1].items[i].num]
                    = << <<0, 0>>, <<0, 1>>, <<0, 2>> >>
              /\ \A i \in 1 .. 3 : index_html[1].items[i].recency = << >>

\* both reports rendered from the empty history
C8_Witness ==
    /\ pc = "compact"
    /\ df = << >>
    /\ index_html # << >>
    /\ index_top3_only_html # << >>

\* C9: with L the latest recorded day, freq_30d of v is the number of tokens of
\* length >= 2 ending in v on days L-29..L, and recency_days of v is L minus the
\* latest day v occurred on (undefined if never); for the one-day history
\* "12345 234" values 45 and 34 have freq_30d 1 and recency 0, the others 0.
C9_FreqAndRecency ==
    (Returned /\ NonEmptyHist) =>
        LET L == LatestRecorded(df)
            kept == KeptTokens(df)
        IN  /\ features.latest_day = L
            /\ \A i \in DOMAIN features.rows :
                  LET v   == features.rows[i].num
                      occ == { p \in kept : EndsIn(df, p, v) }
                      win == { p \in occ : df[p[1]].date >= L - 29 /\ df[p[1]].date <= L }
                  IN  /\ features.rows[i].freq_30d = Cardinality(win)
                      /\ features.rows[i].recency_days =
                            IF occ = {} THEN NaN
                            ELSE L - (CHOOSE d \in { df[p[1]].date : p \in occ } :
                                         \A p \in occ : df[p[1]].date <= d)
            /\ df = << [date |-> FirstDay, all_prizes |-> TextA] >> =>
                  \A i \in DOMAIN features.rows :
                      IF features.rows[i].num \in {45, 34}
                        THEN features.rows[i].freq_30d = 1 /\ features.rows[i].recency_days = 0
                        ELSE features.rows[i].freq_30d = 0

\* a value whose only occurrence is on day L-29, the first day of the window,
\* beside values seen on day L and values never seen
C9_Witness ==
    /\ pc = "built"
    /\ NonEmptyHist
    /\ Len(df) = 2
    /\ \E i \in DOMAIN features.rows :
          features.rows[i].freq_30d = 1 /\ features.rows[i].recency_days = 29
    /\ \E i \in DOMAIN features.rows :
          features.rows[i].freq_30d = 1 /\ features.rows[i].recency_days = 0
    /\ \E i \in DOMAIN features.rows : features.rows[i].recency_days = NaN

\* C10 (as claimed): the divisor of either series is never below 1.0.
C10_DivisorAtLeastOne ==
    (Returned /\ NonEmptyHist) =>
        /\ features.div.hot >= FullDivisor
        /\ features.div.cold >= FullDivisor

\* C10 (amended): the divisor of either series is its sample standard deviation,
\* replaced by 1.0 only when that deviation is exactly 0: it is never zero, and
\* it is below 1.0 whenever the deviation lies strictly between 0 and 1.
C10_DivisorIsStdOrOne ==
    (Returned /\ NonEmptyHist) =>
        LET rows == features.rows
            fw   == Column([i \in Idx |-> rows[i].freq_30d])
            rmax == MaxSeq(Column([i \in Idx |-> rows[i].recency_days]), 1, NumValues)
            rc   == Column([i \in Idx |-> IF rows[i].recency_days = NaN THEN rmax
                                          ELSE rows[i].recency_days])
            VarOf(x) == NumValues * SumSeq(Column([i \in Idx |-> x[i] * x[i]]), 1, NumValues)
                          - SumSeq(x, 1, NumValues) * SumSeq(x, 1, NumValues)
        IN  /\ features.div.hot > 0
            /\ features.div.cold > 0
            /\ features.div.hot = IF VarOf(fw) = 0 THEN FullDivisor ELSE VarOf(fw)
            /\ features.div.cold = IF VarOf(rc) = 0 THEN FullDivisor ELSE VarOf(rc)

\* one table with a divisor below 1.0 and a zero deviation replaced by 1.0
C10_Witness ==
    /\ pc = "built"
    /\ NonEmptyHist
    /\ features.div.hot < FullDivisor
    /\ features.div.cold = FullDivisor
    /\ \A i \in DOMAIN features.rows : features.rows[i].recency_days \in {NaN, 0}
====
